---- MODULE Spec2Model ----
(***************************************************************************)
(* Ingestion of e-commerce JSON records into a labelled property graph.    *)
(*                                                                         *)
(* The graph store is a sequence of nodes and a sequence of edges; a node  *)
(* is known by its position, so two nodes with the same label and key can  *)
(* be told apart.  A Cypher statement is run clause by clause on a table   *)
(* of rows (variable bindings), each updating clause going through the     *)
(* rows in order and seeing its own earlier writes.  A transaction works   *)
(* on its own copy of the graph, which replaces the committed graph at     *)
(* commit and is dropped at rollback.                                      *)
(***************************************************************************)
EXTENDS Integers, Sequences, FiniteSets, TLC

\* ------------------------------------------------------------------ bounds

\* Transactions started in one behaviour of the free ingestion.
MaxTx == 2

\* Longest category list of a product record.
MaxList == 2

\* Longest product file of a run of the main program.
MaxBatch == 3

\* Transactions started in one behaviour of the stock keeping.
MaxStock == 4

\* ------------------------------------------------------------------ values

\* Cypher null, Python None: every scalar of the model is a string.
NULL == "null"

\* Identity-key values, shared by all labels (the label tells them apart).
Keys == {"k1", "k2"}

\* The keys the elements of a list carry, in list order.
KeySeq == <<"k1", "k2", "k3", "k4">>

\* The scalar payload of the records with key k: one value per key, so that two
\* records naming the same related entity from different owners disagree on it.
NameOf(k) == IF k = "k1" THEN "a" ELSE "b"

\* Python dict / Cypher map access.
Has(m, k) == k \in DOMAIN m

\* Cypher m.k: null when the map has no such key.
Prop(m, k) == IF k \in DOMAIN m THEN m[k] ELSE NULL

\* Python m.get(k, d).
Get(m, k, d) == IF k \in DOMAIN m THEN m[k] ELSE d

\* A property map as the store keeps it: a property set to null is absent.
NonNull(m) == [k \in {x \in DOMAIN m : m[x] # NULL} |-> m[k]]

\* SET on an existing property map: the new values win, nulls remove.
SetProps(old, new) == NonNull(new @@ old)

\* json.dumps of the nested values of the model: the JSON text, a string.
JsonDumps(v) ==
    CASE v = [amount |-> "10"] -> "{\"amount\": \"10\"}"
      [] v = [amount |-> "20"] -> "{\"amount\": \"20\"}"
      [] v = [city |-> "x"]    -> "{\"city\": \"x\"}"
      [] v = <<>>              -> "{}"

\* ------------------------------------------------------------------- graph

EmptyGraph == [nodes |-> <<>>, edges |-> <<>>]

\* Positions of the nodes with this label and key, ascending.
NodeIds(g, label, key) ==
    LET F[i \in 0..Len(g.nodes)] ==
            IF i = 0 THEN <<>>
            ELSE IF g.nodes[i].label = label /\ g.nodes[i].key = key
                 THEN Append(F[i - 1], i)
                 ELSE F[i - 1]
    IN  F[Len(g.nodes)]

\* Positions of the edges src -[type]-> dst, ascending.
EdgeIds(g, src, type, dst) ==
    LET F[i \in 0..Len(g.edges)] ==
            IF i = 0 THEN <<>>
            ELSE IF /\ g.edges[i].src = src
                    /\ g.edges[i].type = type
                    /\ g.edges[i].dst = dst
                 THEN Append(F[i - 1], i)
                 ELSE F[i - 1]
    IN  F[Len(g.edges)]

\* CREATE of one node; its position is its identity.
CreateNode(g, label, key, props) ==
    [g EXCEPT !.nodes = Append(@, [label |-> label, key |-> key,
                                   props |-> NonNull(props)])]

\* CREATE of one edge between two bound nodes.
CreateEdge(g, src, type, dst, props) ==
    [g EXCEPT !.edges = Append(@, [src |-> src, type |-> type, dst |-> dst,
                                   props |-> NonNull(props)])]

\* ------------------------------------------------------------ Cypher clauses
\* A statement's state: the transaction's graph, the table of rows and
\* whether an error was raised.

Bind(row, var, val) == (var :> val) @@ row

\* MergeNodeRow as a CREATE: a node is made whether or not one matches.
MergeNodeRowCreates(g, row, var, label, key, props) ==
    [g    |-> CreateNode(g, label, key, props),
     rows |-> <<Bind(row, var, Len(g.nodes) + 1)>>]

\* MergeNodeRow binding the variable of a node it has not made: the edge
\* merges that follow run before their endpoint exists.
MergeNodeRowBindsOnly(g, row, var, label, key, props) ==
    LET ids == NodeIds(g, label, key)
    IN  IF ids = <<>>
        THEN [g |-> g, rows |-> <<Bind(row, var, Len(g.nodes) + 1)>>]
        ELSE [g    |-> g,
              rows |-> [j \in DOMAIN ids |-> Bind(row, var, ids[j])]]

\* MergeNodeRow with its SET applied on a match as well (ON MATCH SET, or a
\* plain SET after the MERGE).
MergeNodeRowSetsOnMatch(g, row, var, label, key, props) ==
    LET ids == NodeIds(g, label, key)
    IN  IF ids = <<>>
        THEN [g    |-> CreateNode(g, label, key, props),
              rows |-> <<Bind(row, var, Len(g.nodes) + 1)>>]
        ELSE [g    |-> [g EXCEPT !.nodes = [n \in DOMAIN @ |->
                          IF \E j \in DOMAIN ids : ids[j] = n
                          THEN [@[n] EXCEPT !.props = SetProps(@, props)]
                          ELSE @[n]]],
              rows |-> [j \in DOMAIN ids |-> Bind(row, var, ids[j])]]

\* MERGE (var:label {key}) ON CREATE SET props, for one row: the rows it
\* yields, one per node matched, or one for the node created.
MergeNodeRow(g, row, var, label, key, props) ==
    LET ids == NodeIds(g, label, key)
    IN  IF ids = <<>>
        THEN [g    |-> CreateNode(g, label, key, props),
              rows |-> <<Bind(row, var, Len(g.nodes) + 1)>>]
        ELSE [g    |-> g,
              rows |-> [j \in DOMAIN ids |-> Bind(row, var, ids[j])]]

\* The MERGE clause over the table; keys[i] and props[i] are the key and the
\* ON CREATE SET values of row i.  Merging on a null key is an error.
MergeNodes(st, var, label, keys, props) ==
    LET F[i \in 0..Len(st.rows)] ==
            IF i = 0 THEN [g |-> st.g, rows |-> <<>>, err |-> st.err]
            ELSE LET a == F[i - 1]
                 IN  IF a.err \/ keys[i] = NULL
                     THEN [a EXCEPT !.err = TRUE]
                     ELSE LET m == MergeNodeRow(a.g, st.rows[i], var, label,
                                                keys[i], props[i])
                          IN  [g |-> m.g, rows |-> a.rows \o m.rows,
                               err |-> FALSE]
    IN  F[Len(st.rows)]

\* SetEdges rewriting the relationships of the graph with the matched ones.
SetEdgesDropsOthers(g, ids, props) ==
    [g EXCEPT !.edges = [j \in DOMAIN ids |->
        [@[ids[j]] EXCEPT !.props = SetProps(@, props)]]]

\* ON MATCH SET on every matched edge.
SetEdges(g, ids, props) ==
    [g EXCEPT !.edges = [e \in DOMAIN @ |->
        IF \E j \in DOMAIN ids : ids[j] = e
        THEN [@[e] EXCEPT !.props = SetProps(@, props)]
        ELSE @[e]]]

\* MergeEdgeRow as a CREATE: an edge is made whether or not one matches.
MergeEdgeRowCreates(g, row, src, type, dst, onCreate, onMatch) ==
    [g    |-> CreateEdge(g, row[src], type, row[dst], onCreate),
     rows |-> <<row>>]

\* MergeEdgeRow without its ON MATCH SET part.
MergeEdgeRowCreateOnly(g, row, src, type, dst, onCreate, onMatch) ==
    LET ids == EdgeIds(g, row[src], type, row[dst])
    IN  IF ids = <<>>
        THEN [g    |-> CreateEdge(g, row[src], type, row[dst], onCreate),
              rows |-> <<row>>]
        ELSE [g |-> g, rows |-> [j \in DOMAIN ids |-> row]]

\* MERGE (src)-[:type]->(dst) ON CREATE SET onCreate ON MATCH SET onMatch,
\* for one row (an empty onMatch: no ON MATCH part).
MergeEdgeRow(g, row, src, type, dst, onCreate, onMatch) ==
    LET ids == EdgeIds(g, row[src], type, row[dst])
    IN  IF ids = <<>>
        THEN [g    |-> CreateEdge(g, row[src], type, row[dst], onCreate),
              rows |-> <<row>>]
        ELSE [g    |-> SetEdges(g, ids, onMatch),
              rows |-> [j \in DOMAIN ids |-> row]]

\* The relationship MERGE clause over the table.
MergeEdges(st, src, type, dst, onCreate, onMatch) ==
    LET F[i \in 0..Len(st.rows)] ==
            IF i = 0 THEN [g |-> st.g, rows |-> <<>>, err |-> st.err]
            ELSE LET a == F[i - 1]
                 IN  IF a.err THEN a
                     ELSE LET m == MergeEdgeRow(a.g, st.rows[i], src, type,
                                                dst, onCreate[i], onMatch[i])
                          IN  [g |-> m.g, rows |-> a.rows \o m.rows,
                               err |-> FALSE]
    IN  F[Len(st.rows)]

\* MATCH (var:label {key}): a row for every node found, none when there is none.
MatchNodes(st, var, label, keys) ==
    LET F[i \in 0..Len(st.rows)] ==
            IF i = 0 THEN <<>>
            ELSE LET ids == NodeIds(st.g, label, keys[i])
                 IN  F[i - 1] \o [j \in DOMAIN ids |->
                                    Bind(st.rows[i], var, ids[j])]
    IN  [st EXCEPT !.rows = F[Len(st.rows)]]

\* WITH vars..., then UNWIND lists[i] AS var: a row for every element of the
\* list, so no row at all when the list is empty (or null).
WithUnwind(st, vars, var, lists) ==
    LET F[i \in 0..Len(st.rows)] ==
            IF i = 0 THEN <<>>
            ELSE LET row == [v \in vars |-> st.rows[i][v]]
                 IN  F[i - 1] \o [j \in DOMAIN lists[i] |->
                                    Bind(row, var, lists[i][j])]
    IN  [st EXCEPT !.rows = F[Len(st.rows)]]

\* WITH vars..., val AS var: the rows keep their number.
With(st, vars, var, val) ==
    [st EXCEPT !.rows = [i \in DOMAIN @ |->
        Bind([v \in vars |-> @[i][v]], var, val)]]

\* SET var.k = v, ...: on the node each row binds.
SetNodes(st, var, props) ==
    LET F[i \in 0..Len(st.rows)] ==
            IF i = 0 THEN st.g
            ELSE [F[i - 1] EXCEPT !.nodes[st.rows[i][var]].props =
                                      SetProps(@, props[i])]
    IN  [st EXCEPT !.g = F[Len(st.rows)]]

\* The rows of a new statement: one row, binding nothing.
NewStatement(st) == [st EXCEPT !.rows = << <<>> >>]

\* The same value for every row of the table.
Each(st, v) == [i \in DOMAIN st.rows |-> v]

\* A failed statement: the error flag set, the rest as it was.
Raised(st) == [st EXCEPT !.err = TRUE]

\* ------------------------------------------------- neo4j_utils: _ingest_product

\* The keys product[...] reads before the statement is sent: one missing is a
\* KeyError.
ProductRequired ==
    {"product_id", "name", "list_price", "categories", "collections",
     "partners", "brand"}

\* The Cypher statement of _ingest_product, clause pc of it.
IngestProductClause(pc, product, st) ==
    CASE pc = 1 ->
           IF ~(ProductRequired \subseteq DOMAIN product) THEN Raised(st)
           ELSE MergeNodes(st, "p", "Product",
                    Each(st, product.product_id),
                    Each(st, [name       |-> product.name,
                              list_price |-> JsonDumps(product.list_price)]))
      [] pc = 2 ->
           WithUnwind(st, {"p"}, "category", Each(st, product.categories))
      [] pc = 3 ->
           MergeNodes(st, "c", "Category",
               [i \in DOMAIN st.rows |-> Prop(st.rows[i].category, "category_id")],
               [i \in DOMAIN st.rows |->
                   [name |-> Prop(st.rows[i].category, "name")]])
      [] pc = 4 ->
           MergeEdges(st, "p", "BELONGS_TO", "c", Each(st, <<>>), Each(st, <<>>))
      [] pc = 5 ->
           WithUnwind(st, {"p"}, "collection", Each(st, product.collections))
      [] pc = 6 ->
           MergeNodes(st, "coll", "Collection",
               [i \in DOMAIN st.rows |-> Prop(st.rows[i].collection, "collection_id")],
               [i \in DOMAIN st.rows |->
                   [name |-> Prop(st.rows[i].collection, "name")]])
      [] pc = 7 ->
           MergeEdges(st, "p", "PART_OF", "coll", Each(st, <<>>), Each(st, <<>>))
      [] pc = 8 ->
           WithUnwind(st, {"p"}, "partner", Each(st, product.partners))
      [] pc = 9 ->
           MergeNodes(st, "pa", "Partner",
               [i \in DOMAIN st.rows |-> Prop(st.rows[i].partner, "partner_id")],
               [i \in DOMAIN st.rows |->
                   [name |-> Prop(st.rows[i].partner, "name")]])
      [] pc = 10 ->
           MergeEdges(st, "p", "SUPPLIED_BY", "pa", Each(st, <<>>), Each(st, <<>>))
      [] pc = 11 ->
           With(st, {"p"}, "brand", product.brand)
      [] pc = 12 ->
           MergeNodes(st, "b", "Brand",
               [i \in DOMAIN st.rows |-> Prop(st.rows[i].brand, "id")],
               [i \in DOMAIN st.rows |->
                   [name |-> Prop(st.rows[i].brand, "name")]])
      [] pc = 13 ->
           MergeEdges(st, "p", "BELONGS_TO", "b", Each(st, <<>>), Each(st, <<>>))

\* Clauses in the statement of _ingest_product.
IngestProductLen == 13

\* ------------------------------------------------- neo4j_utils: _ingest_variant

VariantRequired == {"variant_id", "name", "product_id"}

\* The Cypher statement of _ingest_variant, clause pc of it.
IngestVariantClause(pc, variant, st) ==
    CASE pc = 1 ->
           IF ~(VariantRequired \subseteq DOMAIN variant) THEN Raised(st)
           ELSE MergeNodes(st, "v", "Variant",
                    Each(st, variant.variant_id),
                    Each(st, [name       |-> variant.name,
                              list_price |->
                                  JsonDumps(Get(variant, "list_price", <<>>))]))
      [] pc = 2 ->
           With(st, {"v"}, "product_id", variant.product_id)
      [] pc = 3 ->
           MatchNodes(st, "p", "Product",
               [i \in DOMAIN st.rows |-> st.rows[i].product_id])
      [] pc = 4 ->
           MergeEdges(st, "p", "HAS", "v", Each(st, <<>>), Each(st, <<>>))

IngestVariantLen == 4

\* --------------------------------------------------- neo4j_utils: _ingest_order

OrderRequired == {"order_id", "order_number", "customer_id", "order_items"}

\* shipment.copy() with its shipping_address, when it has one, as JSON text.
PreparedShipment(shipment) ==
    IF Has(shipment, "shipping_address")
    THEN [shipment EXCEPT !.shipping_address = JsonDumps(@)]
    ELSE shipment

PreparedShipments(order) ==
    LET l == Get(order, "shipments", <<>>)
    IN  [i \in DOMAIN l |-> PreparedShipment(l[i])]

\* FOREACH (sc IN CASE WHEN sales_channel.channel_id IS NOT NULL ...): the
\* channel node and the order's edge to it, for the rows that name a channel;
\* the table is left as it was.
ForeachSalesChannel(st) ==
    LET named == SelectSeq(st.rows,
                     LAMBDA r : Prop(r.sales_channel, "channel_id") # NULL)
        sub   == [g |-> st.g, rows |-> named, err |-> st.err]
        a     == MergeNodes(sub, "salesChannel", "SalesChannel",
                     [i \in DOMAIN named |-> named[i].sales_channel.channel_id],
                     [i \in DOMAIN named |->
                         [name |-> Prop(named[i].sales_channel, "name")]])
        b     == MergeEdges(a, "o", "PLACED_ON_CHANNEL", "salesChannel",
                     Each(a, <<>>), Each(a, <<>>))
    IN  [g |-> b.g, rows |-> st.rows, err |-> b.err]

\* The Cypher statement of _ingest_order, clause pc of it.
IngestOrderClause(pc, order, st) ==
    CASE pc = 1 ->
           IF ~(OrderRequired \subseteq DOMAIN order) THEN Raised(st)
           ELSE MergeNodes(st, "o", "Order",
                    Each(st, order.order_id),
                    Each(st, [order_number |-> order.order_number,
                              totals |-> JsonDumps(Get(order, "totals", <<>>))]))
      [] pc = 2 ->
           With(st, {"o"}, "customer_id", order.customer_id)
      [] pc = 3 ->
           MergeNodes(st, "c", "Customer",
               [i \in DOMAIN st.rows |-> st.rows[i].customer_id],
               Each(st, <<>>))
      [] pc = 4 ->
           MergeEdges(st, "c", "PLACED", "o", Each(st, <<>>), Each(st, <<>>))
      [] pc = 5 ->
           With(st, {"o"}, "sales_channel", Get(order, "sales_channel", <<>>))
      [] pc = 6 ->
           ForeachSalesChannel(st)
      [] pc = 7 ->
           WithUnwind(st, {"o"}, "shipment", Each(st, PreparedShipments(order)))
      [] pc = 8 ->
           MergeNodes(st, "s", "Shipment",
               [i \in DOMAIN st.rows |-> Prop(st.rows[i].shipment, "shipment_id")],
               [i \in DOMAIN st.rows |->
                   [status |-> Prop(st.rows[i].shipment, "status"),
                    shipping_address |->
                        Prop(st.rows[i].shipment, "shipping_address")]])
      [] pc = 9 ->
           MergeEdges(st, "o", "HAS_SHIPMENT", "s", Each(st, <<>>), Each(st, <<>>))
      [] pc = 10 ->
           WithUnwind(st, {"o", "s"}, "item",
               [i \in DOMAIN st.rows |-> Get(st.rows[i].shipment, "items", <<>>)])
      [] pc = 11 ->
           MergeNodes(st, "v", "Variant",
               [i \in DOMAIN st.rows |-> Prop(st.rows[i].item, "variant_id")],
               Each(st, <<>>))
      [] pc = 12 ->
           MergeEdges(st, "s", "CONTAINS", "v",
               [i \in DOMAIN st.rows |->
                   [quantity |-> Prop(st.rows[i].item, "quantity")]],
               Each(st, <<>>))
      [] pc = 13 ->
           WithUnwind(st, {"o"}, "item", Each(st, order.order_items))
      [] pc = 14 ->
           MergeNodes(st, "v_order", "Variant",
               [i \in DOMAIN st.rows |-> Prop(st.rows[i].item, "variant_id")],
               Each(st, <<>>))
      [] pc = 15 ->
           LET ro == [i \in DOMAIN st.rows |->
                        [quantity |-> Prop(st.rows[i].item, "quantity"),
                         line_item_total |->
                             Prop(st.rows[i].item, "line_item_total")]]
           IN  MergeEdges(st, "o", "CONTAINS", "v_order", ro, ro)

IngestOrderLen == 15

\* ----------------------------------------------- neo4j_utils: _ingest_inventory

InventoryRequired ==
    {"inventory_id", "variant_id", "created_at", "updated_at", "quantity"}

QuantityRequired == {"total", "sellable", "reserved"}

\* The Cypher statement of _ingest_inventory, clause pc of it.
IngestInventoryClause(pc, inventory, st) ==
    CASE pc = 1 ->
           IF \/ ~(InventoryRequired \subseteq DOMAIN inventory)
              \/ ~(QuantityRequired \subseteq DOMAIN inventory.quantity)
           THEN Raised(st)
           ELSE MatchNodes(st, "v", "Variant", Each(st, inventory.variant_id))
      [] pc = 2 ->
           MergeNodes(st, "inv", "Inventory",
               Each(st, inventory.inventory_id),
               Each(st, [created_at |-> inventory.created_at,
                         updated_at |-> inventory.updated_at]))
      [] pc = 3 ->
           LET r == Each(st, [total    |-> inventory.quantity.total,
                              sellable |-> inventory.quantity.sellable,
                              reserved |-> inventory.quantity.reserved])
           IN  MergeEdges(st, "inv", "RECORDS_STOCK_FOR", "v", r, r)

IngestInventoryLen == 3

\* ------------------------------------------------ neo4j_utils: _ingest_customer

\* The keys customer[...] reads before the statement is sent.
CustomerRequired ==
    {"customer_id", "email", "first_name", "last_name", "phone",
     "customer_segment", "marketing_consent", "notes", "status", "deleted",
     "created_at", "updated_at"}

\* The properties ON CREATE SET gives a new Customer node.
CustomerProps(customer) ==
    [email             |-> customer.email,
     first_name        |-> customer.first_name,
     last_name         |-> customer.last_name,
     phone             |-> customer.phone,
     customer_segment  |-> customer.customer_segment,
     marketing_consent |-> customer.marketing_consent,
     notes             |-> customer.notes,
     status            |-> customer.status,
     deleted           |-> customer.deleted,
     created_at        |-> customer.created_at,
     updated_at        |-> customer.updated_at,
     personalization_details |->
         JsonDumps(Get(customer, "personalization_details", <<>>))]

\* item.copy() with its price_at_add, when it is a dict, as JSON text.
PreparedWishlistItem(item) ==
    IF Has(item, "price_at_add")
    THEN [item EXCEPT !.price_at_add = JsonDumps(@)]
    ELSE item

PreparedWishlist(customer) ==
    LET l == Get(customer, "wishlist", <<>>)
    IN  [i \in DOMAIN l |-> PreparedWishlistItem(l[i])]

\* The properties ON CREATE SET gives a new Address node a: a.state is set from
\* the node itself, which has none yet.
AddressProps(address) ==
    [label          |-> Prop(address, "label"),
     receiver_name  |-> Prop(address, "receiver_name"),
     receiver_phone |-> Prop(address, "receiver_phone"),
     street         |-> Prop(address, "street"),
     city           |-> Prop(address, "city"),
     state          |-> NULL,
     zip_code       |-> Prop(address, "zip_code"),
     country        |-> Prop(address, "country")]

\* The Cypher statement of _ingest_customer, clause pc of it.
IngestCustomerClause(pc, customer, st) ==
    CASE pc = 1 ->
           IF ~(CustomerRequired \subseteq DOMAIN customer) THEN Raised(st)
           ELSE MergeNodes(st, "c", "Customer",
                    Each(st, customer.customer_id),
                    Each(st, CustomerProps(customer)))
      [] pc = 2 ->
           WithUnwind(st, {"c"}, "address",
               Each(st, Get(customer, "addresses", <<>>)))
      [] pc = 3 ->
           MergeNodes(st, "a", "Address",
               [i \in DOMAIN st.rows |-> Prop(st.rows[i].address, "address_id")],
               [i \in DOMAIN st.rows |-> AddressProps(st.rows[i].address)])
      [] pc = 4 ->
           MergeEdges(st, "c", "HAS_ADDRESS", "a",
               [i \in DOMAIN st.rows |->
                   [is_default |-> Prop(st.rows[i].address, "is_default")]],
               Each(st, <<>>))
      [] pc = 5 ->
           WithUnwind(st, {"c"}, "method",
               Each(st, Get(customer, "payment_methods", <<>>)))
      [] pc = 6 ->
           MergeNodes(st, "p", "PaymentMethod",
               [i \in DOMAIN st.rows |->
                   Prop(st.rows[i].method, "payment_method_id")],
               [i \in DOMAIN st.rows |->
                   [type |-> Prop(st.rows[i].method, "type")]])
      [] pc = 7 ->
           MergeEdges(st, "c", "HAS_PAYMENT_METHOD", "p",
               [i \in DOMAIN st.rows |->
                   [is_default |-> Prop(st.rows[i].method, "is_default")]],
               Each(st, <<>>))
      [] pc = 8 ->
           WithUnwind(st, {"c"}, "item", Each(st, PreparedWishlist(customer)))
      [] pc = 9 ->
           MergeNodes(st, "v", "Variant",
               [i \in DOMAIN st.rows |-> Prop(st.rows[i].item, "variant_id")],
               Each(st, <<>>))
      [] pc = 10 ->
           MergeEdges(st, "c", "WISHES_FOR", "v",
               [i \in DOMAIN st.rows |->
                   [added_at     |-> Prop(st.rows[i].item, "added_at"),
                    price_at_add |-> Prop(st.rows[i].item, "price_at_add")]],
               Each(st, <<>>))

IngestCustomerLen == 10

\* ------------------------------------------- app.py: ingest_product_transaction

\* MATCH (p:Product {product_id: $product_id}), the first clause of statements
\* 2 to 9; `required` are the keys the call's arguments read.
AppMatchProduct(product, required, st) ==
    IF ~(required \subseteq DOMAIN product) THEN Raised(st)
    ELSE MatchNodes(NewStatement(st), "p", "Product",
             Each(NewStatement(st), product.product_id))

\* The nine statements of ingest_product_transaction, clause pc of them.
AppProductClause(pc, product, st) ==
    CASE pc = 1 ->
           IF ~({"product_id", "name", "list_price"} \subseteq DOMAIN product)
           THEN Raised(st)
           ELSE MergeNodes(NewStatement(st), "p", "Product",
                    Each(NewStatement(st), product.product_id),
                    Each(NewStatement(st),
                         [name       |-> product.name,
                          list_price |-> JsonDumps(product.list_price)]))
      [] pc = 2 -> AppMatchProduct(product, {"product_id", "categories"}, st)
      [] pc = 3 -> WithUnwind(st, {"p"}, "category", Each(st, product.categories))
      [] pc = 4 ->
           MergeNodes(st, "c", "Category",
               [i \in DOMAIN st.rows |-> Prop(st.rows[i].category, "category_id")],
               [i \in DOMAIN st.rows |->
                   [name |-> Prop(st.rows[i].category, "name")]])
      [] pc = 5 ->
           MergeEdges(st, "p", "BELONGS_TO", "c", Each(st, <<>>), Each(st, <<>>))
      [] pc = 6 -> AppMatchProduct(product, {"product_id", "collections"}, st)
      [] pc = 7 ->
           WithUnwind(st, {"p"}, "collection", Each(st, product.collections))
      [] pc = 8 ->
           MergeNodes(st, "c", "Collection",
               [i \in DOMAIN st.rows |-> Prop(st.rows[i].collection, "collection_id")],
               [i \in DOMAIN st.rows |->
                   [name |-> Prop(st.rows[i].collection, "name")]])
      [] pc = 9 ->
           MergeEdges(st, "p", "PART_OF", "c", Each(st, <<>>), Each(st, <<>>))
      [] pc = 10 -> AppMatchProduct(product, {"product_id", "partners"}, st)
      [] pc = 11 -> WithUnwind(st, {"p"}, "partner", Each(st, product.partners))
      [] pc = 12 ->
           MergeNodes(st, "pa", "Partner",
               [i \in DOMAIN st.rows |-> Prop(st.rows[i].partner, "partner_id")],
               [i \in DOMAIN st.rows |->
                   [name |-> Prop(st.rows[i].partner, "name")]])
      [] pc = 13 ->
           MergeEdges(st, "p", "SUPPLIED_BY", "pa", Each(st, <<>>), Each(st, <<>>))
      [] pc = 14 -> AppMatchProduct(product, {"product_id", "variants"}, st)
      [] pc = 15 -> WithUnwind(st, {"p"}, "variant", Each(st, product.variants))
      [] pc = 16 ->
           MergeNodes(st, "v", "Variant",
               [i \in DOMAIN st.rows |-> Prop(st.rows[i].variant, "variant_id")],
               [i \in DOMAIN st.rows |->
                   [name  |-> Prop(st.rows[i].variant, "name"),
                    color |-> Prop(Get(st.rows[i].variant, "variations", <<>>),
                                   "color")]])
      [] pc = 17 ->
           MergeEdges(st, "p", "HAS_VARIANT", "v", Each(st, <<>>), Each(st, <<>>))
      [] pc = 18 -> AppMatchProduct(product, {"product_id", "media"}, st)
      [] pc = 19 -> WithUnwind(st, {"p"}, "media", Each(st, product.media))
      [] pc = 20 ->
           MergeNodes(st, "m", "Media",
               [i \in DOMAIN st.rows |-> Prop(st.rows[i].media, "url")],
               [i \in DOMAIN st.rows |->
                   [type |-> Prop(st.rows[i].media, "type")]])
      [] pc = 21 ->
           MergeEdges(st, "p", "HAS_MEDIA", "m", Each(st, <<>>), Each(st, <<>>))
      [] pc = 22 ->
           IF ~(Has(product, "brand") /\ {"id", "name"} \subseteq DOMAIN product.brand)
           THEN Raised(st)
           ELSE AppMatchProduct(product, {"product_id"}, st)
      [] pc = 23 ->
           MergeNodes(st, "b", "Brand",
               Each(st, product.brand.id),
               Each(st, [name |-> product.brand.name]))
      [] pc = 24 ->
           MergeEdges(st, "p", "HAS_BRAND", "b", Each(st, <<>>), Each(st, <<>>))
      [] pc = 25 -> AppMatchProduct(product, {"product_id", "marketing"}, st)
      [] pc = 26 ->
           SetNodes(st, "p", Each(st, [marketing |-> JsonDumps(product.marketing)]))
      [] pc = 27 -> AppMatchProduct(product, {"product_id", "tags"}, st)
      [] pc = 28 ->
           SetNodes(st, "p", Each(st, [tags |-> product.tags]))

AppProductLen == 28

\* ------------------------------------------------------------ input records

\* A list of n related entities keyed idField, named nm.
Listed(n, idField, nm) ==
    [i \in 1..n |-> (idField :> KeySeq[i]) @@ [name |-> nm]]

\* A well-formed product record.
Product(k, nc, nl, np) ==
    [product_id  |-> k,
     name        |-> NameOf(k),
     list_price  |-> [amount |-> "10"],
     categories  |-> Listed(nc, "category_id", NameOf(k)),
     collections |-> Listed(nl, "collection_id", NameOf(k)),
     partners    |-> Listed(np, "partner_id", NameOf(k)),
     brand       |-> [id |-> "k1", name |-> NameOf(k)]]

\* The record r without its field f.
Without(r, f) == [x \in DOMAIN r \ {f} |-> r[x]]

\* Product records: every length of the category list, an empty collection
\* list, an empty partner list, a second product naming the same related
\* entities, and three malformed ones (no identity key, no brand, a partner
\* without its key).
Products ==
    {Product("k1", nc, 1, 1) : nc \in 0..MaxList}
    \cup {Product("k1", 1, 0, 1), Product("k1", 1, 1, 0), Product("k2", 1, 1, 1)}
    \cup {Without(Product("k1", 1, 1, 1), "product_id"),
          Without(Product("k1", 1, 1, 1), "brand"),
          [Product("k2", 1, 1, 1) EXCEPT !.partners = <<[name |-> "b"]>>]}

\* Variant records: every variant of every product, and one without its key.
Variant(k, pk) ==
    [variant_id |-> k, name |-> NameOf(k), product_id |-> pk,
     list_price |-> [amount |-> "20"]]

Variants ==
    {Variant(k, pk) : k \in Keys, pk \in Keys}
    \cup {Without(Variant("k1", "k1"), "variant_id")}

\* An order line and a shipment line of variant k.
Item(k, q) == [variant_id |-> k, quantity |-> q, line_item_total |-> q]

Shipment(k, items) ==
    [shipment_id |-> k, status |-> "sent", shipping_address |-> [city |-> "x"],
     items |-> items]

Order(k, items) ==
    [order_id |-> k, order_number |-> NameOf(k), customer_id |-> "k1",
     order_items |-> items]

\* The sales_channel of an order: none, one without a channel_id, a full one.
SalesChannels ==
    {<<>>, [sales_channel |-> [name |-> "web"]],
     [sales_channel |-> [channel_id |-> "k1", name |-> "web"]]}

\* The shipments of an order: none, an empty list, a shipment with an item, a
\* shipment without its items, one with an item after one with no item.
ShipmentLists ==
    {<<>>, [shipments |-> <<>>],
     [shipments |-> <<Shipment("k1", <<Item("k2", "q1")>>)>>],
     [shipments |-> <<Without(Shipment("k1", <<>>), "items")>>],
     [shipments |-> <<Shipment("k1", <<>>), Shipment("k2", <<Item("k1", "q1")>>)>>]}

\* The order_items of an order: the same variant at two quantities, alone and
\* twice in one list, and two variants.
ItemLists ==
    {<<Item("k1", "q1")>>, <<Item("k1", "q2")>>,
     <<Item("k1", "q1"), Item("k1", "q2")>>,
     <<Item("k1", "q1"), Item("k2", "q1")>>}

\* Order records: every sales channel and every order_items list with a
\* shipment that has an item, every shipments list with one order line; and
\* two malformed ones (no identity key, an order line without its variant).
Orders ==
    {Order("k1", <<Item("k1", "q1")>>) @@ ch
        @@ [shipments |-> <<Shipment("k1", <<Item("k2", "q1")>>)>>] :
        ch \in SalesChannels}
    \cup {Order("k1", it)
            @@ [shipments |-> <<Shipment("k1", <<Item("k2", "q1")>>)>>] :
            it \in ItemLists}
    \cup {Order("k1", <<Item("k1", "q1")>>) @@ sh : sh \in ShipmentLists}
    \cup {Without(Order("k1", <<Item("k1", "q1")>>), "order_id"),
          Order("k1", <<[quantity |-> "q1"]>>)
              @@ [shipments |-> <<Shipment("k1", <<Item("k2", "q1")>>)>>]}

\* The time of the stock count that found quantity q.
TimeOf(q) == IF q = "q1" THEN "t1" ELSE "t2"

\* Inventory records, and two malformed ones.
Inventory(k, vk, q) ==
    [inventory_id |-> k, variant_id |-> vk,
     created_at |-> TimeOf(q), updated_at |-> TimeOf(q),
     quantity |-> [total |-> q, sellable |-> q, reserved |-> "q0"]]

Inventories ==
    {Inventory("k1", "k1", "q1"), Inventory("k1", "k1", "q2"),
     Inventory("k1", "k2", "q1")}
    \cup {Without(Inventory("k1", "k1", "q1"), "inventory_id"),
          [Inventory("k1", "k1", "q1") EXCEPT !.quantity = [total |-> "q1"]]}

\* Customer records: all three lists given, each of them empty or absent in
\* turn, none given; and two malformed ones (no identity key, a wishlist item
\* without its variant).
Address(k) ==
    [address_id |-> k, label |-> "home", receiver_name |-> "r",
     receiver_phone |-> "p", street |-> "st", city |-> "c", state |-> "s",
     zip_code |-> "z", country |-> "co", is_default |-> "y"]

Method(k) == [payment_method_id |-> k, type |-> "card", is_default |-> "y"]

Wish(k) ==
    [variant_id |-> k, added_at |-> "t", price_at_add |-> [amount |-> "10"]]

Customer(k) ==
    [customer_id |-> k, email |-> NameOf(k), first_name |-> NameOf(k),
     last_name |-> "l", phone |-> "p", customer_segment |-> "retail",
     marketing_consent |-> "yes", notes |-> "n", status |-> "active",
     deleted |-> "no", created_at |-> "t", updated_at |-> "t"]

CustomerLists(na, nm, nw) ==
    [addresses       |-> [i \in 1..na |-> Address(KeySeq[i])],
     payment_methods |-> [i \in 1..nm |-> Method(KeySeq[i])],
     wishlist        |-> [i \in 1..nw |-> Wish(KeySeq[i])]]

Customers ==
    {Customer("k1") @@ CustomerLists(1, 1, 1),
     Customer("k1") @@ CustomerLists(0, 1, 1),
     Customer("k1") @@ Without(CustomerLists(1, 1, 1), "addresses"),
     Customer("k1") @@ CustomerLists(1, 0, 1),
     Customer("k1") @@ CustomerLists(1, 1, 0),
     Customer("k2")}
    \cup {Without(Customer("k1"), "customer_id"),
          Customer("k1") @@ [addresses |-> <<Address("k1")>>,
                             wishlist  |-> <<[added_at |-> "t"]>>]}

\* The product records of app.py: those of neo4j_utils with variants, media,
\* marketing and tags; and three malformed ones.
AppProduct(k, nc, nl, np) ==
    Product(k, nc, nl, np)
    @@ [variants  |-> <<[variant_id |-> "k1", name |-> NameOf(k),
                         variations |-> [color |-> "red"]]>>,
        media     |-> <<[url |-> "k1", type |-> "image"]>>,
        marketing |-> [amount |-> "20"],
        tags      |-> "new"]

AppProducts ==
    {AppProduct("k1", 0, 1, 1), AppProduct("k1", 1, 1, 1),
     AppProduct("k2", 1, 1, 1)}
    \cup {Without(AppProduct("k1", 1, 1, 1), "media"),
          Without(AppProduct("k1", 1, 1, 1), "brand"),
          Without(AppProduct("k1", 1, 1, 1), "product_id")}

\* ------------------------------------------------------------- transactions

VARIABLES
    graph,   \* the committed graph of the database
    tx,      \* the managed transaction of session.execute_write
    ntx,     \* transactions started so far
    last,    \* the transaction function and record of the last transaction
             \* that committed, and whether it repeated the one before it
    run      \* the run of the main program: the files it loaded, where
             \* ingest_data stands, the transactions it began

vars == <<graph, tx, ntx, last, run>>

NoTx ==
    [status |-> "idle", fn |-> "none", rec |-> <<>>, pc |-> 0,
     st |-> [g |-> EmptyGraph, rows |-> <<>>, err |-> FALSE],
     printed |-> FALSE]

NoLast == [fn |-> "none", rec |-> <<>>, repeat |-> FALSE]

NoFiles ==
    [products |-> <<>>, variants |-> <<>>, orders |-> <<>>,
     inventories |-> <<>>, customers |-> <<>>]

NoRun == [status |-> "none", files |-> NoFiles, loop |-> 0, i |-> 0, log |-> <<>>]

\* Clause pc of the statements of transaction function fn.
Clause(fn, pc, rec, st) ==
    CASE fn = "_ingest_product"   -> IngestProductClause(pc, rec, st)
      [] fn = "_ingest_variant"   -> IngestVariantClause(pc, rec, st)
      [] fn = "_ingest_order"     -> IngestOrderClause(pc, rec, st)
      [] fn = "_ingest_inventory" -> IngestInventoryClause(pc, rec, st)
      [] fn = "_ingest_customer"  -> IngestCustomerClause(pc, rec, st)
      [] fn = "ingest_product_transaction" -> AppProductClause(pc, rec, st)

\* Clauses a transaction function runs before it prints.
PlanLen(fn) ==
    CASE fn = "_ingest_product"   -> IngestProductLen
      [] fn = "_ingest_variant"   -> IngestVariantLen
      [] fn = "_ingest_order"     -> IngestOrderLen
      [] fn = "_ingest_inventory" -> IngestInventoryLen
      [] fn = "_ingest_customer"  -> IngestCustomerLen
      [] fn = "ingest_product_transaction" -> AppProductLen

\* RolledBack with every statement committed as it runs (session.run in
\* place of a managed transaction).
RolledBackKeepsWork(committed, work) == work

\* What the database holds after a rollback, and after a commit, of a
\* transaction that worked on `work`.
RolledBack(committed, work) == committed

Committed(committed, work) == work

Init ==
    /\ graph = EmptyGraph
    /\ tx = NoTx
    /\ ntx = 0
    /\ last = NoLast
    /\ run = NoRun

\* session.execute_write(fn, rec): a transaction begins and fn is called.
ExecuteWrite(fn, rec) ==
    /\ tx.status # "open"
    /\ tx' = [status |-> "open", fn |-> fn, rec |-> rec, pc |-> 1,
              st |-> [g |-> graph, rows |-> << <<>> >>, err |-> FALSE],
              printed |-> FALSE]
    /\ ntx' = ntx + 1
    /\ UNCHANGED <<graph, last>>

\* tx.run: the next clause runs.
RunClause ==
    /\ tx.status = "open"
    /\ tx.pc <= PlanLen(tx.fn)
    /\ LET st == Clause(tx.fn, tx.pc, tx.rec, tx.st)
       IN  /\ ~st.err
           /\ tx' = [tx EXCEPT !.pc = @ + 1, !.st = st]
    /\ UNCHANGED <<graph, ntx, last, run>>

\* RaiseError with the exception caught inside the transaction function,
\* which returns and lets execute_write commit.
RaiseErrorSwallowed ==
    /\ tx.status = "open"
    /\ tx.pc <= PlanLen(tx.fn)
    /\ Clause(tx.fn, tx.pc, tx.rec, tx.st).err
    /\ graph' = tx.st.g
    /\ tx' = [tx EXCEPT !.status = "committed", !.st = NoTx.st]
    /\ last' = [fn |-> tx.fn, rec |-> tx.rec, repeat |-> FALSE]
    /\ UNCHANGED <<ntx, run>>

\* The clause raises (a KeyError of the arguments, a Cypher error): the
\* exception leaves the transaction function and execute_write rolls back.
RaiseError ==
    /\ tx.status = "open"
    /\ tx.pc <= PlanLen(tx.fn)
    /\ Clause(tx.fn, tx.pc, tx.rec, tx.st).err
    /\ graph' = RolledBack(graph, tx.st.g)
    /\ tx' = [tx EXCEPT !.status = "failed", !.st = NoTx.st]
    /\ last' = NoLast
    /\ UNCHANGED <<ntx, run>>

\* print("Successfully ingested ..."), the last line of the function.
PrintSuccess ==
    /\ tx.status = "open"
    /\ tx.pc = PlanLen(tx.fn) + 1
    /\ ~tx.printed
    /\ tx' = [tx EXCEPT !.printed = TRUE]
    /\ UNCHANGED <<graph, ntx, last, run>>

\* The function returned: execute_write commits.
Commit ==
    /\ tx.status = "open"
    /\ tx.printed
    /\ graph' = Committed(graph, tx.st.g)
    /\ tx' = [tx EXCEPT !.status = "committed", !.st = NoTx.st]
    /\ last' = [fn |-> tx.fn, rec |-> tx.rec,
                repeat |-> last.fn = tx.fn /\ last.rec = tx.rec]
    /\ UNCHANGED <<ntx, run>>

\* One record of any family is ingested, in any order.
IngestProduct ==
    /\ ntx < MaxTx
    /\ \E r \in Products : ExecuteWrite("_ingest_product", r)
    /\ UNCHANGED run

IngestVariant ==
    /\ ntx < MaxTx
    /\ \E r \in Variants : ExecuteWrite("_ingest_variant", r)
    /\ UNCHANGED run

IngestOrder ==
    /\ ntx < MaxTx
    /\ \E r \in Orders : ExecuteWrite("_ingest_order", r)
    /\ UNCHANGED run

IngestInventory ==
    /\ ntx < MaxTx
    /\ \E r \in Inventories : ExecuteWrite("_ingest_inventory", r)
    /\ UNCHANGED run

IngestCustomer ==
    /\ ntx < MaxTx
    /\ \E r \in Customers : ExecuteWrite("_ingest_customer", r)
    /\ UNCHANGED run

\* app.py's create_nodes_and_relationships, one product of its loop.
IngestAppProduct ==
    /\ ntx < MaxTx
    /\ \E r \in AppProducts : ExecuteWrite("ingest_product_transaction", r)
    /\ UNCHANGED run

\* The record just committed is ingested again, by the same function.
IngestAgain ==
    /\ tx.status = "committed"
    /\ ~last.repeat
    /\ ExecuteWrite(last.fn, last.rec)
    /\ UNCHANGED run

Next ==
    \/ IngestProduct
    \/ IngestVariant
    \/ IngestOrder
    \/ IngestInventory
    \/ IngestCustomer
    \/ IngestAppProduct
    \/ IngestAgain
    \/ RunClause
    \/ RaiseError
    \/ PrintSuccess
    \/ Commit

Spec == Init /\ [][Next]_vars

\* ------------------------------------------------- properties of the ingestion

\* The graphs of a state: the committed one and the open transaction's.
Graphs == {graph, tx.st.g}

\* Whether g holds a node of this label and key.
HasNode(g, label, key) == NodeIds(g, label, key) # <<>>

\* The edges of g of this type from a node (sl, sk) to a node (dl, dk).
EdgesBetween(g, sl, sk, type, dl, dk) ==
    {e \in DOMAIN g.edges :
        /\ g.edges[e].type = type
        /\ g.edges[e].src \in DOMAIN g.nodes
        /\ g.edges[e].dst \in DOMAIN g.nodes
        /\ g.nodes[g.edges[e].src].label = sl
        /\ g.nodes[g.edges[e].src].key = sk
        /\ g.nodes[g.edges[e].dst].label = dl
        /\ g.nodes[g.edges[e].dst].key = dk}

\* C1: a record that was ingested and committed, ingested again immediately
\* afterwards by the same function, commits a graph equal to the one before
\* it: the same nodes, the same edges, the same property values.
Idempotent ==
    [][(/\ tx.status = "open"
        /\ tx'.status = "committed"
        /\ last.fn = tx.fn
        /\ last.rec = tx.rec) => graph' = graph]_vars

\* A variant record was committed twice in a row on a graph holding its
\* product, and so its HAS edge.
IdempotentWitness ==
    /\ tx.status = "committed"
    /\ last.repeat
    /\ last.fn = "_ingest_variant"
    /\ EdgesBetween(graph, "Product", last.rec.product_id, "HAS",
                    "Variant", last.rec.variant_id) # {}

\* C2: in the committed graph and in the graph of the open transaction, no
\* two nodes have the same label and identity key.
NodeUnique ==
    \A g \in Graphs : \A i, j \in DOMAIN g.nodes :
        (g.nodes[i].label = g.nodes[j].label /\ g.nodes[i].key = g.nodes[j].key)
            => i = j

\* A customer record was committed after an order had made a placeholder node
\* for the same customer.
NodeUniqueWitness ==
    /\ tx.status = "committed"
    /\ tx.fn = "_ingest_customer"
    /\ EdgesBetween(graph, "Customer", tx.rec.customer_id, "PLACED",
                    "Order", "k1") # {}

\* C3: in the committed graph and in the graph of the open transaction, after
\* every clause of a plan, both ends of every edge are nodes of the graph.
NoDanglingEdge ==
    \A g \in Graphs : \A e \in DOMAIN g.edges :
        g.edges[e].src \in DOMAIN g.nodes /\ g.edges[e].dst \in DOMAIN g.nodes

\* Inside the plan of an order: the shipment's edge is merged, the nodes of the
\* order lines are not yet.
NoDanglingEdgeWitness ==
    /\ tx.status = "open"
    /\ tx.fn = "_ingest_order"
    /\ tx.pc = 14
    /\ tx.st.g.edges # <<>>
    /\ tx.st.g # graph

\* C6: the committed graph changes only at a commit, and then to the graph the
\* whole plan produced; a transaction that fails leaves it as it was.
Atomic ==
    [][/\ tx'.status # "committed" => graph' = graph
       /\ (tx.status = "open" /\ tx'.status = "committed")
            => (graph' = tx.st.g /\ tx.pc = PlanLen(tx.fn) + 1)]_vars

\* app.py's product transaction failed at a statement after the first (no
\* media, no brand), with nodes and edges of the record already merged.
AtomicWitness ==
    /\ tx.status = "failed"
    /\ tx.fn = "ingest_product_transaction"
    /\ tx.pc >= 18
    /\ ~HasNode(graph, "Product", tx.rec.product_id)

\* Whether the elements of list l have distinct values of field f.
DistinctKeys(l, f) ==
    \A i, j \in DOMAIN l : l[i][f] = l[j][f] => i = j

\* Whether g holds, for every element of list l, a node (label, element[f])
\* and exactly one edge of this type from the node (sl, sk) to it.
FannedOut(g, sl, sk, type, label, l, f) ==
    \A i \in DOMAIN l :
        /\ HasNode(g, label, l[i][f])
        /\ Cardinality(EdgesBetween(g, sl, sk, type, label, l[i][f])) = 1

\* C7: when _ingest_product has committed a product record, the graph holds a
\* Category, Collection and Partner node for every element of the record's
\* three lists and exactly one BELONGS_TO, PART_OF, SUPPLIED_BY edge from the
\* Product to each, whichever of the lists are empty.
ProductFanOutComplete ==
    (tx.status = "committed" /\ tx.fn = "_ingest_product") =>
        LET r == tx.rec
        IN  /\ FannedOut(graph, "Product", r.product_id, "BELONGS_TO",
                         "Category", r.categories, "category_id")
            /\ FannedOut(graph, "Product", r.product_id, "PART_OF",
                         "Collection", r.collections, "collection_id")
            /\ FannedOut(graph, "Product", r.product_id, "SUPPLIED_BY",
                         "Partner", r.partners, "partner_id")

\* C8: when _ingest_order has committed an order record (whose order lines
\* name distinct variants), every order line has its Variant node and exactly
\* one CONTAINS edge from the Order to it, carrying the line's quantity and
\* line_item_total, whatever the record's shipments.
OrderLinesComplete ==
    (/\ tx.status = "committed"
     /\ tx.fn = "_ingest_order"
     /\ DistinctKeys(tx.rec.order_items, "variant_id")) =>
        \A i \in DOMAIN tx.rec.order_items :
            LET item == tx.rec.order_items[i]
                es   == EdgesBetween(graph, "Order", tx.rec.order_id, "CONTAINS",
                                     "Variant", item.variant_id)
            IN  /\ HasNode(graph, "Variant", item.variant_id)
                /\ Cardinality(es) = 1
                /\ \A e \in es :
                      graph.edges[e].props =
                          [quantity        |-> item.quantity,
                           line_item_total |-> item.line_item_total]

\* C9: a variant record whose product is not in the graph is not committed:
\* whenever _ingest_variant has committed a record, the Product it names is in
\* the graph, with a HAS edge to the Variant.
VariantNeedsProduct ==
    (tx.status = "committed" /\ tx.fn = "_ingest_variant") =>
        /\ HasNode(graph, "Product", tx.rec.product_id)
        /\ EdgesBetween(graph, "Product", tx.rec.product_id, "HAS",
                        "Variant", tx.rec.variant_id) # {}

\* C11: when _ingest_customer has committed a customer record, the graph holds
\* a PaymentMethod node for every element of payment_methods with exactly one
\* HAS_PAYMENT_METHOD edge from the Customer, and a Variant node for every
\* wishlist element with exactly one WISHES_FOR edge from the Customer,
\* whether or not the record's addresses (or payment_methods) are empty.
CustomerFanOutComplete ==
    (tx.status = "committed" /\ tx.fn = "_ingest_customer") =>
        LET r == tx.rec
        IN  /\ FannedOut(graph, "Customer", r.customer_id, "HAS_PAYMENT_METHOD",
                         "PaymentMethod", Get(r, "payment_methods", <<>>),
                         "payment_method_id")
            /\ FannedOut(graph, "Customer", r.customer_id, "WISHES_FOR",
                         "Variant", Get(r, "wishlist", <<>>), "variant_id")

\* C12: a record's success notification has been printed only when the
\* record's transaction has committed.
NotifiedAfterCommit ==
    tx.printed => tx.status = "committed"

\* C14: when _ingest_order has committed an order record (whose order lines
\* name distinct variants), every CONTAINS edge of the graph from the Order to
\* a Variant the record lists carries the quantity and line_item_total of
\* this record, the one most recently ingested for the order.
OrderLinesRefreshed ==
    (/\ tx.status = "committed"
     /\ tx.fn = "_ingest_order"
     /\ DistinctKeys(tx.rec.order_items, "variant_id")) =>
        \A i \in DOMAIN tx.rec.order_items :
            LET item == tx.rec.order_items[i]
            IN  \A e \in EdgesBetween(graph, "Order", tx.rec.order_id,
                                      "CONTAINS", "Variant", item.variant_id) :
                    graph.edges[e].props =
                        [quantity        |-> item.quantity,
                         line_item_total |-> item.line_item_total]

\* The labels of the reference entities of a product.
ReferenceLabels == {"Category", "Collection", "Partner", "Brand"}

\* C15: a Category, Collection, Partner or Brand node that exists keeps its
\* properties through every step, whatever a later product record says of it.
ReferenceCreateOnly ==
    [][\A i \in DOMAIN graph.nodes :
          graph.nodes[i].label \in ReferenceLabels =>
              /\ i \in DOMAIN graph'.nodes
              /\ graph'.nodes[i] = graph.nodes[i]]_vars

\* Product k2 was committed after product k1: it names category k1 and brand
\* k1 with other names, the nodes keep the names product k1 gave them and
\* product k2 has its edges to them.
ReferenceCreateOnlyWitness ==
    /\ tx.status = "committed"
    /\ tx.fn = "_ingest_product"
    /\ tx.rec.product_id = "k2"
    /\ tx.rec.brand.name # NameOf("k1")
    /\ \E i \in DOMAIN graph.nodes :
          /\ graph.nodes[i].label = "Brand"
          /\ graph.nodes[i].key = "k1"
          /\ graph.nodes[i].props = [name |-> NameOf("k1")]
    /\ \E i \in DOMAIN graph.nodes :
          /\ graph.nodes[i].label = "Category"
          /\ graph.nodes[i].key = "k1"
          /\ graph.nodes[i].props = [name |-> NameOf("k1")]
    /\ EdgesBetween(graph, "Product", "k2", "BELONGS_TO", "Brand", "k1") # {}
    /\ EdgesBetween(graph, "Product", "k2", "BELONGS_TO", "Category", "k1") # {}

\* C16: through every step the nodes and the edges of the committed graph
\* stay: each node with its label and key, each edge with its ends and type.
NeverDeletes ==
    [][/\ \A i \in DOMAIN graph.nodes :
             /\ i \in DOMAIN graph'.nodes
             /\ graph'.nodes[i].label = graph.nodes[i].label
             /\ graph'.nodes[i].key = graph.nodes[i].key
       /\ \A e \in DOMAIN graph.edges :
             /\ e \in DOMAIN graph'.edges
             /\ graph'.edges[e].src = graph.edges[e].src
             /\ graph'.edges[e].type = graph.edges[e].type
             /\ graph'.edges[e].dst = graph.edges[e].dst]_vars

\* An order record with one line was committed after a record of the same
\* order with two lines and another quantity: the ON MATCH SET rewrote the
\* edge of the line, and the order's other edges are still there.
NeverDeletesWitness ==
    /\ tx.status = "committed"
    /\ tx.fn = "_ingest_order"
    /\ tx.rec.order_items = <<Item("k1", "q2")>>
    /\ \E e \in EdgesBetween(graph, "Order", "k1", "CONTAINS", "Variant", "k1") :
          graph.edges[e].props.quantity = "q2"
    /\ EdgesBetween(graph, "Order", "k1", "CONTAINS", "Variant", "k2") # {}
    /\ EdgesBetween(graph, "Customer", "k1", "PLACED", "Order", "k1") # {}
    /\ EdgesBetween(graph, "Order", "k1", "HAS_SHIPMENT", "Shipment", "k1") # {}

\* The identity key of the records of a transaction function.
IdentityKey(fn) ==
    CASE fn = "_ingest_product"   -> "product_id"
      [] fn = "_ingest_variant"   -> "variant_id"
      [] fn = "_ingest_order"     -> "order_id"
      [] fn = "_ingest_inventory" -> "inventory_id"
      [] fn = "_ingest_customer"  -> "customer_id"
      [] fn = "ingest_product_transaction" -> "product_id"

\* C17: the transaction of a record without its identity key runs no clause,
\* prints nothing and ends failed, and no step of it changes the committed
\* graph.
MissingKeyRejected ==
    [][(tx'.status # "idle" /\ ~Has(tx'.rec, IdentityKey(tx'.fn))) =>
          /\ tx'.status \in {"open", "failed"}
          /\ tx'.pc = 1
          /\ ~tx'.printed
          /\ tx'.st.g \in {graph, EmptyGraph}
          /\ graph' = graph]_vars

\* A record without its identity key has failed on a graph that holds the
\* nodes of an earlier record.
MissingKeyRejectedWitness ==
    /\ tx.status = "failed"
    /\ ~Has(tx.rec, IdentityKey(tx.fn))
    /\ graph # EmptyGraph

\* C18: when _ingest_order has committed an order whose sales_channel has a
\* channel_id, the graph holds the SalesChannel node of that key and exactly
\* one THROUGH_CHANNEL edge from the Order to it.
OrderChannelEdge ==
    (/\ tx.status = "committed"
     /\ tx.fn = "_ingest_order"
     /\ Prop(Get(tx.rec, "sales_channel", <<>>), "channel_id") # NULL) =>
        /\ HasNode(graph, "SalesChannel", tx.rec.sales_channel.channel_id)
        /\ Cardinality(EdgesBetween(graph, "Order", tx.rec.order_id,
                                    "THROUGH_CHANNEL", "SalesChannel",
                                    tx.rec.sales_channel.channel_id)) = 1

\* --------------------------------------------- neo4j_utils: main and ingest_data

\* The first n well-formed products, and those with a malformed record (no
\* identity key) put in at place j.
GoodProducts(n) == [i \in 1..n |-> Product(KeySeq[i], 1, 1, 1)]

WithMalformed(n, j) ==
    [i \in 1..(n + 1) |->
        IF i < j THEN Product(KeySeq[i], 1, 1, 1)
        ELSE IF i = j THEN Without(Product("k1", 1, 1, 1), "product_id")
        ELSE Product(KeySeq[i - 1], 1, 1, 1)]

\* The product file: up to MaxBatch well-formed records, or a longest file with
\* one malformed record at any place.
ProductFiles ==
    {GoodProducts(n) : n \in 0..(MaxBatch - 1)}
    \cup {WithMalformed(MaxBatch - 1, j) : j \in 1..MaxBatch}

VariantFiles ==
    {<<>>, <<Variant("k1", "k1")>>, <<Variant("k1", "k1"), Variant("k2", "k2")>>,
     <<Variant("k2", "k1"), Variant("k1", "k2")>>,
     <<Variant("k1", "k1"), Without(Variant("k2", "k1"), "variant_id")>>}

OrderFiles ==
    {<<>>,
     <<Order("k1", <<Item("k1", "q1")>>)
         @@ [shipments |-> <<Shipment("k1", <<Item("k2", "q1")>>)>>]>>,
     <<Order("k1", <<Item("k1", "q1")>>), Order("k2", <<Item("k2", "q2")>>)>>}

InventoryFiles ==
    {<<>>, <<Inventory("k1", "k1", "q1")>>,
     <<Inventory("k1", "k1", "q1"), Inventory("k2", "k2", "q2")>>,
     <<Inventory("k1", "k2", "q1")>>}

CustomerFiles ==
    {<<>>, <<Customer("k1") @@ CustomerLists(1, 1, 1)>>,
     <<Customer("k2"), Customer("k1") @@ CustomerLists(0, 1, 1)>>}

\* MainArgs in the order of the loops of ingest_data, not of its parameters.
MainArgsLoopOrder(files) ==
    <<files.products, files.variants, files.orders, files.inventories,
      files.customers>>

\* The arguments of main's call of ingest_data, in the order it gives them.
MainArgs(files) ==
    <<files.products, files.variants, files.orders, files.customers,
      files.inventories>>

\* The parameters of ingest_data, bound by position.
IngestDataParams(args) ==
    [product_data     |-> args[1],
     variants_data    |-> args[2],
     orders_data      |-> args[3],
     customers_data   |-> args[4],
     inventories_data |-> args[5]]

\* Loops with the inventory loop moved before the variant loop.
LoopsInventoryFirst ==
    <<[data |-> "product_data",     fn |-> "_ingest_product"],
      [data |-> "inventories_data", fn |-> "_ingest_inventory"],
      [data |-> "variants_data",    fn |-> "_ingest_variant"],
      [data |-> "orders_data",      fn |-> "_ingest_order"],
      [data |-> "customers_data",   fn |-> "_ingest_customer"]>>

\* The five loops of ingest_data, in the order it runs them.
Loops ==
    <<[data |-> "product_data",     fn |-> "_ingest_product"],
      [data |-> "variants_data",    fn |-> "_ingest_variant"],
      [data |-> "orders_data",      fn |-> "_ingest_order"],
      [data |-> "inventories_data", fn |-> "_ingest_inventory"],
      [data |-> "customers_data",   fn |-> "_ingest_customer"]>>

\* The list loop l of ingest_data goes through, in this run.
LoopData(r, l) == IngestDataParams(MainArgs(r.files))[Loops[l].data]

\* A run whose files are loaded and whose database is empty.
InitRun ==
    /\ graph = EmptyGraph
    /\ tx = NoTx
    /\ ntx = 0
    /\ last = NoLast
    /\ \E p \in ProductFiles, v \in VariantFiles, o \in OrderFiles,
          n \in InventoryFiles, c \in CustomerFiles :
          run = [status |-> "loaded",
                 files  |-> [products |-> p, variants |-> v, orders |-> o,
                             inventories |-> n, customers |-> c],
                 loop |-> 0, i |-> 0, log |-> <<>>]

\* main: some file holds data, ingest_data is called and opens its session.
MainIngest ==
    /\ run.status = "loaded"
    /\ \E f \in DOMAIN run.files : run.files[f] # <<>>
    /\ run' = [run EXCEPT !.status = "ingesting", !.loop = 1, !.i = 1]
    /\ UNCHANGED <<graph, tx, ntx, last>>

\* main: no file holds data, the ingestion is skipped.
MainSkip ==
    /\ run.status = "loaded"
    /\ \A f \in DOMAIN run.files : run.files[f] = <<>>
    /\ run' = [run EXCEPT !.status = "skipped"]
    /\ UNCHANGED <<graph, tx, ntx, last>>

\* The loop's next record: session.execute_write is called with it.
LoopExecute ==
    /\ run.status = "ingesting"
    /\ tx.status \in {"idle", "committed"}
    /\ run.loop <= Len(Loops)
    /\ run.i <= Len(LoopData(run, run.loop))
    /\ ExecuteWrite(Loops[run.loop].fn, LoopData(run, run.loop)[run.i])
    /\ run' = [run EXCEPT !.i = @ + 1,
                          !.log = Append(@, [fn  |-> Loops[run.loop].fn,
                                             rec |-> LoopData(run, run.loop)[run.i]])]

\* The loop's list is at its end: the next loop begins.
LoopEnd ==
    /\ run.status = "ingesting"
    /\ tx.status \in {"idle", "committed"}
    /\ run.loop <= Len(Loops)
    /\ run.i > Len(LoopData(run, run.loop))
    /\ run' = [run EXCEPT !.loop = @ + 1, !.i = 1]
    /\ UNCHANGED <<graph, tx, ntx, last>>

\* execute_write raised: nothing catches the exception, which leaves
\* ingest_data and ends the program.
IngestDataRaise ==
    /\ run.status = "ingesting"
    /\ tx.status = "failed"
    /\ run' = [run EXCEPT !.status = "crashed"]
    /\ UNCHANGED <<graph, tx, ntx, last>>

\* The last loop is over: ingest_data returns.
IngestDataReturn ==
    /\ run.status = "ingesting"
    /\ run.loop > Len(Loops)
    /\ run' = [run EXCEPT !.status = "complete"]
    /\ UNCHANGED <<graph, tx, ntx, last>>

NextRun ==
    \/ MainIngest
    \/ MainSkip
    \/ LoopExecute
    \/ LoopEnd
    \/ IngestDataRaise
    \/ IngestDataReturn
    \/ RunClause
    \/ RaiseError
    \/ PrintSuccess
    \/ Commit

RunSpec == InitRun /\ [][NextRun]_vars

\* ------------------------------------------------------ properties of a run

\* The records of list l, each with the function that ingests its family.
Tagged(fn, l) == [i \in DOMAIN l |-> [fn |-> fn, rec |-> l[i]]]

\* The transactions of a run in the order the families are to be ingested:
\* products, variants, orders, inventories, customers, each in file order.
FamilyOrder(files) ==
    Tagged("_ingest_product", files.products)
    \o Tagged("_ingest_variant", files.variants)
    \o Tagged("_ingest_order", files.orders)
    \o Tagged("_ingest_inventory", files.inventories)
    \o Tagged("_ingest_customer", files.customers)

\* C4: the transactions a run has begun are the first records of the files in
\* family order (products, variants, orders, inventories, customers; file
\* order within a family), all of them once ingest_data has returned; the one
\* open transaction is that of the record begun last.
OrderedRun ==
    /\ Len(run.log) <= Len(FamilyOrder(run.files))
    /\ run.log = SubSeq(FamilyOrder(run.files), 1, Len(run.log))
    /\ run.status = "complete" => run.log = FamilyOrder(run.files)
    /\ tx.status = "open" =>
          (run.log # <<>> /\ run.log[Len(run.log)] = [fn |-> tx.fn, rec |-> tx.rec])

\* A run over five files that all hold records has returned.
OrderedRunWitness ==
    /\ run.status = "complete"
    /\ \A f \in DOMAIN run.files : run.files[f] # <<>>

\* Whether a product record has every key _ingest_product reads.
WellFormedProduct(r) == ProductRequired \subseteq DOMAIN r

\* C5: when a run is over, every well-formed product record of the product
\* file has its Product node in the graph, also when another record of the
\* file is malformed.
MalformedRecordIsolated ==
    run.status \in {"complete", "crashed"} =>
        \A i \in DOMAIN run.files.products :
            WellFormedProduct(run.files.products[i]) =>
                HasNode(graph, "Product", run.files.products[i].product_id)

\* Whether every variant names a product of the product file and every
\* inventory a variant of the variant file.
Referenced(files) ==
    /\ \A i \in DOMAIN files.variants : \E j \in DOMAIN files.products :
          /\ Has(files.products[j], "product_id")
          /\ files.products[j].product_id = files.variants[i].product_id
    /\ \A i \in DOMAIN files.inventories : \E j \in DOMAIN files.variants :
          /\ Has(files.variants[j], "variant_id")
          /\ files.variants[j].variant_id = files.inventories[i].variant_id

\* C10: when ingest_data has returned on files whose references are all met,
\* every variant record has its Variant node with a HAS edge from its Product,
\* and every inventory record its Inventory node with a RECORDS_STOCK_FOR edge
\* to its Variant.
ReferencesComplete ==
    (run.status = "complete" /\ Referenced(run.files)) =>
        /\ \A i \in DOMAIN run.files.variants :
              LET v == run.files.variants[i]
              IN  /\ HasNode(graph, "Variant", v.variant_id)
                  /\ EdgesBetween(graph, "Product", v.product_id, "HAS",
                                  "Variant", v.variant_id) # {}
        /\ \A i \in DOMAIN run.files.inventories :
              LET n == run.files.inventories[i]
              IN  /\ HasNode(graph, "Inventory", n.inventory_id)
                  /\ EdgesBetween(graph, "Inventory", n.inventory_id,
                                  "RECORDS_STOCK_FOR", "Variant",
                                  n.variant_id) # {}

\* A run has returned on files with two variants of two products and two
\* inventories of those variants, and no order that could have made the
\* Variant nodes.
ReferencesCompleteWitness ==
    /\ run.status = "complete"
    /\ Referenced(run.files)
    /\ Len(run.files.variants) = 2
    /\ Len(run.files.inventories) = 2
    /\ run.files.orders = <<>>

\* C20: when ingest_data has returned, every customer record of the customer
\* file has its Customer node, and the node carries the record's email,
\* first_name, last_name, phone, customer_segment and status, also when an
\* order of the run named the customer before.
CustomerPropsComplete ==
    run.status = "complete" =>
        \A i \in DOMAIN run.files.customers :
            LET c == run.files.customers[i]
            IN  /\ HasNode(graph, "Customer", c.customer_id)
                /\ \A n \in DOMAIN graph.nodes :
                      (/\ graph.nodes[n].label = "Customer"
                       /\ graph.nodes[n].key = c.customer_id) =>
                          \A f \in {"email", "first_name", "last_name", "phone",
                                    "customer_segment", "status"} :
                              Prop(graph.nodes[n].props, f) = c[f]

\* The nodes of g with this label, and its edges of this type.
NodesOf(g, label) == {n \in DOMAIN g.nodes : g.nodes[n].label = label}

EdgesOf(g, type) == {e \in DOMAIN g.edges : g.edges[e].type = type}

\* Whether the record has no sales_channel, or one without a channel_id.
NoChannel(order) == Prop(Get(order, "sales_channel", <<>>), "channel_id") = NULL

\* C26: the transaction of an order without sales_channel, or with one that
\* has no channel_id, does not fail at the sales-channel clauses; when it
\* commits, the graph has the SalesChannel nodes and the channel edges it had,
\* the Order node, the PLACED edge from its Customer, and the rest of the
\* order's plan: every shipment with its HAS_SHIPMENT edge and every order
\* line with its Variant and CONTAINS edge.
OptionalSalesChannel ==
    [][(tx.status = "open" /\ tx.fn = "_ingest_order" /\ NoChannel(tx.rec)) =>
          /\ tx'.status = "failed" => tx.pc \notin {5, 6}
          /\ tx'.status = "committed" =>
                LET r == tx.rec
                    shipments == Get(r, "shipments", <<>>)
                IN  /\ NodesOf(graph', "SalesChannel") = NodesOf(graph, "SalesChannel")
                    /\ EdgesOf(graph', "PLACED_ON_CHANNEL") =
                           EdgesOf(graph, "PLACED_ON_CHANNEL")
                    /\ EdgesOf(graph', "THROUGH_CHANNEL") = {}
                    /\ HasNode(graph', "Order", r.order_id)
                    /\ EdgesBetween(graph', "Customer", r.customer_id, "PLACED",
                                    "Order", r.order_id) # {}
                    /\ \A i \in DOMAIN shipments :
                          EdgesBetween(graph', "Order", r.order_id,
                                       "HAS_SHIPMENT", "Shipment",
                                       shipments[i].shipment_id) # {}
                    /\ \A i \in DOMAIN r.order_items :
                          EdgesBetween(graph', "Order", r.order_id, "CONTAINS",
                                       "Variant",
                                       r.order_items[i].variant_id) # {}]_vars

\* The fields of an address element that become properties of its node.
AddressFields ==
    {"label", "receiver_name", "receiver_phone", "street", "city", "state",
     "zip_code", "country"}

\* C22: when _ingest_customer has committed a customer record, the Address
\* node of every element of its addresses carries, for each of label,
\* receiver_name, receiver_phone, street, city, state, zip_code and country,
\* the value of that field in the element (the address elements of one key are
\* the same in every record, so this is the element the node was created
\* from).
AddressProjected ==
    (tx.status = "committed" /\ tx.fn = "_ingest_customer") =>
        LET l == Get(tx.rec, "addresses", <<>>)
        IN  \A i \in DOMAIN l : \A n \in DOMAIN graph.nodes :
                (/\ graph.nodes[n].label = "Address"
                 /\ graph.nodes[n].key = l[i].address_id) =>
                    \A f \in AddressFields :
                        Prop(graph.nodes[n].props, f) = Prop(l[i], f)

\* ------------------------------------------------- the two main programs
\* The run record of a main program holds, besides the fields of ingest_data:
\* the program, whether NEO4J_PASSWORD is set, the attempts of the retry loop,
\* the variable data_driver (0: None, else the number of a driver), every
\* driver connect_to_neo4j has returned with its state, and whether
\* app.py's variable products_data is bound.

\* max_retries of both programs.
max_retries == 5

\* What neo4j_utils finds in its five files: nothing (or no file at all), a
\* product file alone (the file read before a missing one), records in every
\* file, a product without its identity key.
MainFiles ==
    {NoFiles,
     [NoFiles EXCEPT !.products = <<Product("k1", 1, 1, 1)>>],
     [products    |-> <<Product("k1", 1, 1, 1)>>,
      variants    |-> <<Variant("k1", "k1")>>,
      orders      |-> <<Order("k1", <<Item("k1", "q1")>>)>>,
      inventories |-> <<Inventory("k1", "k1", "q1")>>,
      customers   |-> <<Customer("k1")>>],
     [NoFiles EXCEPT !.products =
         <<Without(Product("k1", 1, 1, 1), "product_id")>>]}

\* What app.py finds in its product file: nothing (or no file), one product,
\* two products, a product without its media.
AppFiles ==
    {[NoFiles EXCEPT !.products = f] :
        f \in {<<>>, <<AppProduct("k1", 1, 1, 1)>>,
               <<AppProduct("k1", 1, 1, 1), AppProduct("k2", 1, 1, 1)>>,
               <<Without(AppProduct("k1", 1, 1, 1), "media")>>}}

\* A program is started on an empty database server.
InitMain ==
    /\ graph = EmptyGraph
    /\ tx = NoTx
    /\ ntx = 0
    /\ last = NoLast
    /\ \E prog \in {"neo4j_utils", "app"}, pw \in BOOLEAN :
          \E f \in (IF prog = "app" THEN AppFiles ELSE MainFiles) :
             run = [status |-> "start", files |-> f, loop |-> 0, i |-> 0,
                    log |-> <<>>, prog |-> prog, password |-> pw,
                    attempt |-> 0, system |-> "none", data_driver |-> 0,
                    drivers |-> <<>>, bound |-> FALSE]

\* NEO4J_PASSWORD is not set: exit().
MainNoPassword ==
    /\ run.status = "start"
    /\ ~run.password
    /\ run' = [run EXCEPT !.status = "exited"]
    /\ UNCHANGED <<graph, tx, ntx, last>>

\* Step 1: the system driver is opened, and when it is, the database is
\* created (an error of it is printed, not raised) and the driver closed.
MainCreateDatabase ==
    /\ run.status = "start"
    /\ run.password
    /\ \E ok \in BOOLEAN :
          run' = [run EXCEPT !.status = "retry",
                             !.system = IF ok THEN "closed" ELSE "none"]
    /\ UNCHANGED <<graph, tx, ntx, last>>

\* neo4j_utils, one round of the retry loop: connect_to_neo4j returns a
\* driver, and the files are loaded, or None, and the program sleeps.
MainConnect ==
    /\ run.prog = "neo4j_utils"
    /\ run.status = "retry"
    /\ run.attempt < max_retries
    /\ \E ok \in BOOLEAN :
          run' = IF ok
                 THEN [run EXCEPT !.attempt = @ + 1,
                                  !.drivers = Append(@, "open"),
                                  !.data_driver = Len(run.drivers) + 1,
                                  !.status = "loaded"]
                 ELSE [run EXCEPT !.attempt = @ + 1, !.data_driver = 0]
    /\ UNCHANGED <<graph, tx, ntx, last>>

\* MainClose without the break: the retry loop goes on after the ingestion.
MainCloseNoBreak ==
    /\ run.prog = "neo4j_utils"
    /\ run.status \in {"complete", "skipped"}
    /\ run' = [run EXCEPT !.drivers[run.data_driver] = "closed",
                          !.status = "retry"]
    /\ UNCHANGED <<graph, tx, ntx, last>>

\* neo4j_utils: ingest_data has returned or was skipped: data_driver.close()
\* and break.
MainClose ==
    /\ run.prog = "neo4j_utils"
    /\ run.status \in {"complete", "skipped"}
    /\ run' = [run EXCEPT !.drivers[run.data_driver] = "closed",
                          !.status = "done"]
    /\ UNCHANGED <<graph, tx, ntx, last>>

\* The retry loop has made its max_retries rounds: the program ends.
MainExhausted ==
    /\ run.status = "retry"
    /\ run.attempt = max_retries
    /\ run' = [run EXCEPT !.status = "done"]
    /\ UNCHANGED <<graph, tx, ntx, last>>

\* app.py, one round of the retry loop as far as `if products_data`:
\* connect_to_neo4j returns a driver, and products_data is bound to the
\* file's records (to [] when there is no file), or it returns None.
AppConnect ==
    /\ run.prog = "app"
    /\ run.status = "retry"
    /\ run.attempt < max_retries
    /\ \E ok \in BOOLEAN :
          run' = IF ok
                 THEN [run EXCEPT !.attempt = @ + 1,
                                  !.drivers = Append(@, "open"),
                                  !.data_driver = Len(run.drivers) + 1,
                                  !.bound = TRUE,
                                  !.status = "app_connected"]
                 ELSE [run EXCEPT !.attempt = @ + 1, !.data_driver = 0,
                                  !.status = "app_connected"]
    /\ UNCHANGED <<graph, tx, ntx, last>>

\* app.py, `if products_data`: a NameError when the name is not bound; with
\* records, create_nodes_and_relationships is called, and driver.session
\* raises AttributeError when data_driver is None; with none, the program
\* prints and sleeps.
AppCheckData ==
    /\ run.prog = "app"
    /\ run.status = "app_connected"
    /\ run' = IF ~run.bound THEN [run EXCEPT !.status = "crashed"]
              ELSE IF run.files.products = <<>>
                   THEN [run EXCEPT !.status = "app_closing"]
              ELSE IF run.data_driver = 0
                   THEN [run EXCEPT !.status = "crashed"]
              ELSE [run EXCEPT !.status = "app_ingesting", !.i = 1]
    /\ UNCHANGED <<graph, tx, ntx, last>>

\* app.py, the loop of create_nodes_and_relationships: the next product.
AppLoopExecute ==
    /\ run.status = "app_ingesting"
    /\ tx.status \in {"idle", "committed"}
    /\ run.i <= Len(run.files.products)
    /\ ExecuteWrite("ingest_product_transaction", run.files.products[run.i])
    /\ run' = [run EXCEPT !.i = @ + 1,
                          !.log = Append(@, [fn  |-> "ingest_product_transaction",
                                             rec |-> run.files.products[run.i]])]

\* app.py: the loop is over, create_nodes_and_relationships returns.
AppLoopEnd ==
    /\ run.status = "app_ingesting"
    /\ tx.status \in {"idle", "committed"}
    /\ run.i > Len(run.files.products)
    /\ run' = [run EXCEPT !.status = "app_closing"]
    /\ UNCHANGED <<graph, tx, ntx, last>>

\* app.py: execute_write raised: nothing catches the exception, which ends
\* the program.
AppRaise ==
    /\ run.status = "app_ingesting"
    /\ tx.status = "failed"
    /\ run' = [run EXCEPT !.status = "crashed"]
    /\ UNCHANGED <<graph, tx, ntx, last>>

\* app.py, the last line of the loop body: data_driver.close(), an
\* AttributeError when data_driver is None; the loop goes on (no break).
AppClose ==
    /\ run.status = "app_closing"
    /\ run' = IF run.data_driver = 0
              THEN [run EXCEPT !.status = "crashed"]
              ELSE [run EXCEPT !.drivers[run.data_driver] = "closed",
                               !.status = "retry"]
    /\ UNCHANGED <<graph, tx, ntx, last>>

NextMain ==
    \/ MainNoPassword
    \/ MainCreateDatabase
    \/ MainConnect
    \/ MainIngest
    \/ MainSkip
    \/ LoopExecute
    \/ LoopEnd
    \/ IngestDataRaise
    \/ IngestDataReturn
    \/ MainClose
    \/ MainExhausted
    \/ AppConnect
    \/ AppCheckData
    \/ AppLoopExecute
    \/ AppLoopEnd
    \/ AppRaise
    \/ AppClose
    \/ RunClause
    \/ RaiseError
    \/ PrintSuccess
    \/ Commit

MainSpec == InitMain /\ [][NextMain]_vars

\* The programs are sequential and every call of them returns or raises
\* (connect_to_neo4j, sleep, a statement of a transaction): a program that
\* can take a step takes one.
MainFairSpec == InitMain /\ [][NextMain]_vars /\ WF_vars(NextMain)

\* Whether the program has ended: by exit(), after its loop, by an exception.
Ended == run.status \in {"exited", "done", "crashed"}

\* C23: neo4j_utils makes at most max_retries connection attempts, one at a
\* time and only while it has no driver yet; it begins no transaction before
\* it has a driver, calls ingest_data only when no transaction was begun
\* before (so at most once), ends without a driver only after max_retries
\* attempts, and it always ends.
BoundedRetry ==
    /\ [](run.prog = "neo4j_utils" =>
            /\ run.attempt <= max_retries
            /\ Len(run.drivers) <= 1
            /\ run.drivers = <<>> => (ntx = 0 /\ graph = EmptyGraph)
            /\ (run.status = "done" /\ run.drivers = <<>>) =>
                   run.attempt = max_retries)
    /\ [][run.prog = "neo4j_utils" =>
            /\ run'.attempt # run.attempt =>
                   (run.drivers = <<>> /\ run'.attempt = run.attempt + 1)
            /\ (run.status # "ingesting" /\ run'.status = "ingesting") =>
                   (ntx = 0 /\ run.drivers # <<>>)]_vars
    /\ (run.prog = "neo4j_utils" => <>Ended)

\* neo4j_utils has ended after two failed attempts and a third that gave the
\* driver: the records were ingested and the driver is closed.
BoundedRetryWitness ==
    /\ run.prog = "neo4j_utils"
    /\ run.status = "done"
    /\ run.attempt = 3
    /\ run.drivers = <<"closed">>
    /\ run.log # <<>>
    /\ graph # EmptyGraph

\* C24: app.py does not end by an exception while data_driver is None (it
\* neither uses nor closes a missing driver, nor reads products_data before
\* it is bound), and it takes the else branch that prints 'Connection
\* failed ... Retrying' only after a connection attempt that gave no driver.
AppRetriesFailedConnection ==
    [][run.prog = "app" =>
          /\ run'.status = "crashed" => run'.data_driver # 0
          /\ (run.status = "app_connected" /\ run'.status = "app_closing") =>
                 run.data_driver = 0]_vars

\* C19: in a run of a main program connect_to_neo4j returns at most one
\* driver for the ingestion, and when the program has ended, however it
\* ended, every driver it returned has been closed.
ConnectionLifecycle ==
    /\ Len(run.drivers) <= 1
    /\ Ended => \A d \in DOMAIN run.drivers : run.drivers[d] = "closed"

\* ------------------------------------------------------------ stock keeping
\* Variant and inventory records only, in any order, MaxStock of them: long
\* enough for two variants and two counts of stock.

StockVariant ==
    /\ ntx < MaxStock
    /\ \E r \in Variants : ExecuteWrite("_ingest_variant", r)
    /\ UNCHANGED run

StockInventory ==
    /\ ntx < MaxStock
    /\ \E r \in Inventories : ExecuteWrite("_ingest_inventory", r)
    /\ UNCHANGED run

NextStock ==
    \/ StockVariant
    \/ StockInventory
    \/ RunClause
    \/ RaiseError
    \/ PrintSuccess
    \/ Commit

StockSpec == Init /\ [][NextStock]_vars

\* C13: when _ingest_inventory has committed a record whose Variant is in the
\* graph, there is exactly one RECORDS_STOCK_FOR edge from the record's
\* Inventory to that Variant, and its total, sellable and reserved are those
\* of this record, the one most recently ingested.
InventoryRefreshed ==
    (/\ tx.status = "committed"
     /\ tx.fn = "_ingest_inventory"
     /\ HasNode(graph, "Variant", tx.rec.variant_id)) =>
        LET es == EdgesBetween(graph, "Inventory", tx.rec.inventory_id,
                               "RECORDS_STOCK_FOR", "Variant", tx.rec.variant_id)
        IN  /\ Cardinality(es) = 1
            /\ \A e \in es :
                  graph.edges[e].props =
                      [total    |-> tx.rec.quantity.total,
                       sellable |-> tx.rec.quantity.sellable,
                       reserved |-> tx.rec.quantity.reserved]

\* The count q2 of inventory k1 was committed after the count q1 had made
\* the Inventory node (which keeps the first count's created_at) and its edge.
InventoryRefreshedWitness ==
    /\ tx.status = "committed"
    /\ tx.fn = "_ingest_inventory"
    /\ tx.rec.quantity.total = "q2"
    /\ \E i \in DOMAIN graph.nodes :
          /\ graph.nodes[i].label = "Inventory"
          /\ graph.nodes[i].key = tx.rec.inventory_id
          /\ graph.nodes[i].props.created_at = TimeOf("q1")
    /\ \E e \in EdgesBetween(graph, "Inventory", tx.rec.inventory_id,
                              "RECORDS_STOCK_FOR", "Variant", tx.rec.variant_id) :
          graph.edges[e].props.total = "q2"

\* C21: when _ingest_inventory has committed an inventory record (and printed
\* its success message), the graph holds the record's Inventory node and a
\* RECORDS_STOCK_FOR edge from it to the record's Variant, whether or not the
\* Variant was in the graph before.
InventoryCreated ==
    (tx.status = "committed" /\ tx.fn = "_ingest_inventory" /\ tx.printed) =>
        /\ HasNode(graph, "Inventory", tx.rec.inventory_id)
        /\ EdgesBetween(graph, "Inventory", tx.rec.inventory_id,
                        "RECORDS_STOCK_FOR", "Variant", tx.rec.variant_id) # {}

\* C25: when _ingest_inventory has committed an inventory record, every
\* Inventory node of the record's key has at most one outgoing
\* RECORDS_STOCK_FOR edge, and the edge it has goes to the Variant this
\* record names, the one most recently ingested for the inventory (stated for
\* the records whose Variant is in the graph).
SingleStockTarget ==
    (/\ tx.status = "committed"
     /\ tx.fn = "_ingest_inventory"
     /\ HasNode(graph, "Variant", tx.rec.variant_id)) =>
        \A n \in DOMAIN graph.nodes :
            (/\ graph.nodes[n].label = "Inventory"
             /\ graph.nodes[n].key = tx.rec.inventory_id) =>
                LET out == {e \in DOMAIN graph.edges :
                               /\ graph.edges[e].src = n
                               /\ graph.edges[e].type = "RECORDS_STOCK_FOR"}
                IN  /\ Cardinality(out) <= 1
                    /\ \A e \in out :
                          /\ graph.edges[e].dst \in DOMAIN graph.nodes
                          /\ graph.nodes[graph.edges[e].dst].label = "Variant"
                          /\ graph.nodes[graph.edges[e].dst].key =
                                 tx.rec.variant_id

====
